---- MODULE Spec2Model ----
(***************************************************************************)
(* Model of firmware/GumballSound.c (ATtiny13a): the playback sequencer of *)
(* main(), the busy-wait primitive delaySomeTime() and the two LED         *)
(* conditions evaluated on a waveform wraparound.                          *)
(*                                                                         *)
(* I/O registers are modelled as the set of the bit numbers that are 1.    *)
(* Program positions are named after the source line they stand before.    *)
(***************************************************************************)
EXTENDS Integers, Sequences, FiniteSets, TLC

\* ---------------------------------------------------------------- tables

gumballWavTabSize == 92

gumballWavTab ==
  << 138, 177,  85,  77, 178, 144,  67, 143, 183,  79,  84, 189,
     140,  53, 152, 184,  58, 112, 203,  76,  81, 215,  93,  71,
     210, 105,  58, 222,  84,  76, 228,  48, 123, 207,  15, 197,
     130,  46, 243,  19, 178, 145,  44, 245,   1, 224,  69, 131,
     168,  46, 233,   5, 246,  19, 211,  71, 150, 128,  97, 172,
      62, 201,  38, 220,  29, 220,  39, 198,  67, 168,  96, 137,
     131, 101, 172,  64, 198,  48, 194,  69, 160, 116, 110, 165,
      70, 186,  75, 148, 137,  86, 183,  89 >>

\* pitchTab[] of the source: <<gumballPitch, pitchDuration>> per element
pitchTab ==
  << <<100,280>>, <<150,250>>, <<180,300>>, <<90,800>>, <<120,500>>,
     <<200,50>>, <<120,280>>, <<95,282>>, <<90,285>>, <<180,350>>,
     <<150,380>>, <<120,280>>, <<95,410>>, <<90,285>>, <<70,500>>,
     <<200,50>>, <<70,180>>, <<65,1000>>, <<70,150>>, <<80,180>>,
     <<90,285>>, <<80,270>>, <<12,50>>, <<50,2000>>, <<200,500>>,
     <<80,500>>, <<100,500>>, <<255,800>>, <<100,100>>, <<96,100>>,
     <<92,100>>, <<88,200>>, <<84,250>>, <<80,300>>, <<77,350>>,
     <<74,400>>, <<71,200>>, <<68,200>>, <<65,200>>, <<62,200>>,
     <<59,190>>, <<56,180>>, <<53,170>>, <<53,160>>, <<50,150>>,
     <<48,140>>, <<46,130>>, <<44,120>>, <<42,110>>, <<40,100>>,
     <<38,100>>, <<36,100>>, <<34,100>>, <<32,100>>, <<30,100>>,
     <<28,100>>, <<26,100>>, <<24,100>>, <<22,90>>, <<20,70>>,
     <<18,60>>, <<16,50>>, <<14,40>>, <<10,100>>, <<16,50>>,
     <<20,70>>, <<36,100>>, <<50,150>>, <<62,200>>, <<71,200>>,
     <<80,150>>, <<92,130>>,
     <<0,0>> >>

\* Other contents of pitchTab[] the sequencer is run on: the three-entry
\* scenario table, and tables with a zero duration, with whole waveform
\* cycles at pitches 20, 10, 7, 40 and 50, and with elements stored after
\* the first zero pitch.
ScenarioTab == << <<100,5>>, <<50,3>>, <<0,0>> >>

CycleTab == << <<20,93>>, <<7,0>>, <<10,92>>, <<50,1>>, <<0,9>>, <<30,4>>, <<0,0>> >>

WrapTab == << <<7,92>>, <<40,92>>, <<50,184>>, <<0,0>> >>

Tables == << pitchTab, ScenarioTab, CycleTab, WrapTab >>

\* ------------------------------------------------------------- constants

SAMP == 10
TENTH_MS == 112

PB0 == 0
PB1 == 1
PB2 == 2
PB3 == 3
PB5 == 5
COM0A1 == 7
WGM01 == 1
WGM00 == 0
CS00 == 0

\* value ranges of uint8_t and uint16_t
U8 == 256
U16 == 65536

\* bounds of the arguments the delay primitive is exercised with
MaxUnits == 3
MaxDelayCount == 3

\* values an uninitialised local of main() may hold before its first store
Uninit8 == {0, 255}
Uninit16 == {0, 65535}

\* ------------------------------------------------------ pure definitions

\* reg ^= mask on a register held as the set of its 1 bits
Toggle(reg, mask) == (reg \ mask) \cup (mask \ reg)

\* pgm_read_byte(&pitchTab[i].gumballPitch) for table t (0-based i);
\* flash past the end of the array reads as erased (0xFF)
ReadPitch(t, i) == IF i + 1 <= Len(Tables[t]) THEN Tables[t][i + 1][1] ELSE 255

\* pgm_read_word(&pitchTab[i].pitchDuration)
ReadDuration(t, i) == IF i + 1 <= Len(Tables[t]) THEN Tables[t][i + 1][2] ELSE 65535

\* pgm_read_byte(&gumballWavTab[i]); flash past the end is not table data
ReadWave(i) == IF i + 1 <= Len(gumballWavTab) THEN gumballWavTab[i + 1] ELSE 255

\* variant: the two tests of line 242 joined by && instead of ||
RedCondAnd(p) == (p % 50 = 0) /\ (p % 20 = 0)

\* condition of line 242 (red LED)
RedCond(p) == (p % 50 = 0) \/ (p % 20 = 0)

\* variant: the second test of line 245 written % 100 instead of % 10
GreenCondTypo(p) == (p % 40 = 0) \/ (p % 100 = 0)

\* condition of line 245 (green LED)
GreenCond(p) == (p % 40 = 0) \/ (p % 10 = 0)

\* A 32-bit unsigned value (uint32_t, unsigned long int) is the pair
\* <<high 16 bits, low 16 bits>>.
W32(n) == <<0, n>>

Val32(x) == x[1] * U16 + x[2]

Inc32(x) == IF x[2] + 1 < U16 THEN <<x[1], x[2] + 1>> ELSE <<(x[1] + 1) % U16, 0>>

Dec32(x) == IF x[2] > 0 THEN <<x[1], x[2] - 1>> ELSE <<(x[1] + U16 - 1) % U16, U16 - 1>>

Lt32(x, y) == x[1] < y[1] \/ (x[1] = y[1] /\ x[2] < y[2])

Le32(x, y) == x = y \/ Lt32(x, y)

\* executions of the tick body of line 162 in one run of the for loop,
\* started with the given timer value
RECURSIVE ForTicks(_, _)
ForTicks(t, d) ==
  IF Le32(t, d) THEN 1 + ForTicks(Inc32(t), d) ELSE 0

\* executions of the tick body in delaySomeTime(units, delayCount)
RECURSIVE DelayTicks(_, _)
DelayTicks(u, d) ==
  IF u # W32(0) THEN ForTicks(W32(0), d) + DelayTicks(Dec32(u), d) ELSE 0

\* tick count of the per-sample call delaySomeTime(pitchRate, SAMP) of line 234:
\* the while loop of line 160 runs the for loop of line 162 pitchRate times
SampTicks == [u \in 0..(U8 - 1) |-> u * ForTicks(W32(0), W32(SAMP))]

\* index of the first element of table t whose pitch is 0
SentinelTab ==
  [t \in 1..Len(Tables) |->
     CHOOSE i \in 0..(Len(Tables[t]) - 1) :
        /\ ReadPitch(t, i) = 0
        /\ \A k \in 0..(i - 1) : ReadPitch(t, k) # 0]

Sentinel(t) == SentinelTab[t]

\* sum of the durations of the elements 0..(k-1) of table t
RECURSIVE DurSumRange(_, _, _)
DurSumRange(t, lo, hi) ==
  IF lo > hi THEN 0
  ELSE IF lo = hi THEN ReadDuration(t, lo)
  ELSE DurSumRange(t, lo, (lo + hi) \div 2) + DurSumRange(t, ((lo + hi) \div 2) + 1, hi)

DurSumTab ==
  [t \in 1..Len(Tables) |-> [k \in 0..Len(Tables[t]) |-> DurSumRange(t, 0, k - 1)]]

DurSum(t, k) == DurSumTab[t][k]

LEDS == {PB1, PB2, PB3}


\* ------------------------------------------------------------------ state

VARIABLES
  tab,          \* which of Tables is the content of pitchTab[]
  pc,           \* position in main()
  gumIndex, gumWavDat, pitchIndex, pitchRate, pitchLen, j,   \* locals of main()
  OCR0A, PORTB, DDRB, TCCR0A, TCCR0B,                        \* I/O registers
  ev,           \* history: the step of main() taken last
  prevPORTB,    \* history: PORTB before that step
  emitted,      \* history: writes of OCR0A since the current element was read
  passSamples,  \* history: writes of OCR0A since the cursor was reset
  passBlue,     \* history: changes of PORTB bit PB3 since the cursor was reset
  sinceZero,    \* history: writes of OCR0A since gumIndex last became 0
  gap,          \* history: sinceZero at the last time gumIndex became 0 (-1: none yet)
  cursorSet,    \* history: lines 213-214 have been executed at least once
  dpc, units, delayCount, timer,   \* position and locals of delaySomeTime()
  ticks,        \* history: executions of the tick body in the current call
  call,         \* history: <<units, delayCount>> the current call was made with
  prev,         \* history: <<units, delayCount, ticks>> of the call before it
  lp, seen,     \* pitch value whose LED conditions were evaluated last, and the
                \* <<red, green>> outcomes seen so far
  bpc, bi,      \* position in blink_LEDs() and its local int i
  bargs,        \* <<duration, onTime, offTime>> blink_LEDs() was called with
  periods       \* history: on/off periods completed in the current call

mainVars == <<tab, pc, gumIndex, gumWavDat, pitchIndex, pitchRate, pitchLen, j,
              OCR0A, DDRB, TCCR0A, TCCR0B,
              ev, prevPORTB, emitted, passSamples, passBlue, sinceZero, gap, cursorSet>>
delayVars == <<dpc, units, delayCount, timer, ticks, call, prev>>
ledVars == <<lp, seen>>
blinkVars == <<bpc, bi, bargs, periods>>
vars == <<mainVars, PORTB, delayVars, ledVars, blinkVars>>

\* registers and history as they are at reset
RegInit ==
  /\ OCR0A = 0 /\ PORTB = {} /\ DDRB = {} /\ TCCR0A = {} /\ TCCR0B = {}

MainIdle ==
  /\ tab = 1 /\ pc = "off"
  /\ gumIndex = 0 /\ gumWavDat = 0 /\ pitchIndex = 0 /\ pitchRate = 0
  /\ pitchLen = 0 /\ j = W32(0)
  /\ ev = "reset" /\ prevPORTB = {} /\ emitted = 0 /\ passSamples = 0
  /\ passBlue = 0 /\ sinceZero = 0 /\ gap = -1 /\ cursorSet = FALSE

DelayIdle ==
  /\ dpc = "idle" /\ units = W32(0) /\ delayCount = W32(0) /\ timer = W32(0)
  /\ ticks = 0 /\ call = <<>> /\ prev = <<>>

LedIdle == lp = 0 /\ seen = {}

BlinkIdle == bpc = "idle" /\ bi = 0 /\ bargs = <<>> /\ periods = 0

\* ------------------------------------------------------------- sequencer

\* entry of main(): the locals of lines 189-193 are not initialised
Init ==
  /\ RegInit
  /\ tab \in 1..Len(Tables)
  /\ pc = "l197"
  /\ gumIndex \in Uninit8 /\ gumWavDat \in Uninit8
  /\ pitchIndex \in Uninit8 /\ pitchRate \in Uninit8
  /\ pitchLen \in Uninit16 /\ j = W32(0)
  /\ ev = "reset" /\ prevPORTB = {} /\ emitted = 0 /\ passSamples = 0
  /\ passBlue = 0 /\ sinceZero = 0 /\ gap = -1 /\ cursorSet = FALSE
  /\ DelayIdle /\ LedIdle /\ BlinkIdle

\* history variables, as a function of the step op and of what it did
History(op) ==
  LET zeroed == op = "reset_cursor" \/ (op = "advance" /\ gumIndex' = 0)
      read == op \in {"read_first", "read_next"}
      blue == IF (PB3 \in PORTB') # (PB3 \in PORTB) THEN 1 ELSE 0
  IN /\ ev' = op
     /\ prevPORTB' = PORTB
     /\ emitted' = IF read THEN 0 ELSE IF op = "write" THEN emitted + 1 ELSE emitted
     /\ passSamples' = IF op = "reset_cursor" THEN 0
                       ELSE IF op = "write" THEN passSamples + 1 ELSE passSamples
     /\ passBlue' = (IF op = "reset_cursor" THEN 0 ELSE passBlue) + blue
     /\ sinceZero' = IF zeroed THEN 0
                     ELSE IF op = "write" THEN sinceZero + 1 ELSE sinceZero
     /\ gap' = IF zeroed THEN (IF cursorSet THEN sinceZero ELSE -1) ELSE gap
     /\ cursorSet' = (cursorSet \/ op = "reset_cursor")

\* line 197: DDRB |= _BV(PB0)
SetPwmPinOutput ==
  /\ pc = "l197"
  /\ DDRB' = DDRB \cup {PB0}
  /\ pc' = "l198"
  /\ UNCHANGED <<tab, gumIndex, gumWavDat, pitchIndex, pitchRate, pitchLen, j,
                 OCR0A, PORTB, TCCR0A, TCCR0B, delayVars, ledVars, blinkVars>>
  /\ History("ddr_pwm")

\* line 198: TCCR0A |= _BV(COM0A1)
SetCompareMode ==
  /\ pc = "l198"
  /\ TCCR0A' = TCCR0A \cup {COM0A1}
  /\ pc' = "l201"
  /\ UNCHANGED <<tab, gumIndex, gumWavDat, pitchIndex, pitchRate, pitchLen, j,
                 OCR0A, PORTB, DDRB, TCCR0B, delayVars, ledVars, blinkVars>>
  /\ History("com")

\* line 201: TCCR0A |= _BV(WGM01)|_BV(WGM00)
SetFastPwm ==
  /\ pc = "l201"
  /\ TCCR0A' = TCCR0A \cup {WGM01, WGM00}
  /\ pc' = "l206"
  /\ UNCHANGED <<tab, gumIndex, gumWavDat, pitchIndex, pitchRate, pitchLen, j,
                 OCR0A, PORTB, DDRB, TCCR0B, delayVars, ledVars, blinkVars>>
  /\ History("wgm")

\* line 206: TCCR0B |= _BV(CS00)
SetNoPrescale ==
  /\ pc = "l206"
  /\ TCCR0B' = TCCR0B \cup {CS00}
  /\ pc' = "l209"
  /\ UNCHANGED <<tab, gumIndex, gumWavDat, pitchIndex, pitchRate, pitchLen, j,
                 OCR0A, PORTB, DDRB, TCCR0A, delayVars, ledVars, blinkVars>>
  /\ History("cs")

\* variant: line 209 without _BV(PB3)
SetLedPinsOutputNoBlue ==
  /\ pc = "l209"
  /\ DDRB' = DDRB \cup {PB1, PB2}
  /\ pc' = "l213"
  /\ UNCHANGED <<tab, gumIndex, gumWavDat, pitchIndex, pitchRate, pitchLen, j,
                 OCR0A, PORTB, TCCR0A, TCCR0B, delayVars, ledVars, blinkVars>>
  /\ History("ddr_led")

\* line 209: DDRB |= _BV(PB1)|_BV(PB2)|_BV(PB3)
SetLedPinsOutput ==
  /\ pc = "l209"
  /\ DDRB' = DDRB \cup {PB1, PB2, PB3}
  /\ pc' = "l213"
  /\ UNCHANGED <<tab, gumIndex, gumWavDat, pitchIndex, pitchRate, pitchLen, j,
                 OCR0A, PORTB, TCCR0A, TCCR0B, delayVars, ledVars, blinkVars>>
  /\ History("ddr_led")

\* variant: line 213 (gumIndex = 0) left out
ResetCursorKeepWave ==
  /\ pc = "l213"
  /\ pitchIndex' = 0
  /\ pc' = "l219"
  /\ UNCHANGED <<tab, gumIndex, gumWavDat, pitchRate, pitchLen, j,
                 OCR0A, PORTB, DDRB, TCCR0A, TCCR0B, delayVars, ledVars, blinkVars>>
  /\ History("reset_cursor")

\* variant: line 214 (pitchIndex = 0) left out
ResetCursorKeepPitch ==
  /\ pc = "l213"
  /\ gumIndex' = 0
  /\ pc' = "l219"
  /\ UNCHANGED <<tab, gumWavDat, pitchIndex, pitchRate, pitchLen, j,
                 OCR0A, PORTB, DDRB, TCCR0A, TCCR0B, delayVars, ledVars, blinkVars>>
  /\ History("reset_cursor")

\* lines 212-214: while (1) { gumIndex = 0; pitchIndex = 0;
ResetCursor ==
  /\ pc = "l213"
  /\ gumIndex' = 0
  /\ pitchIndex' = 0
  /\ pc' = "l219"
  /\ UNCHANGED <<tab, gumWavDat, pitchRate, pitchLen, j,
                 OCR0A, PORTB, DDRB, TCCR0A, TCCR0B, delayVars, ledVars, blinkVars>>
  /\ History("reset_cursor")

\* lines 219-220: read pitchTab[pitchIndex]
ReadFirst ==
  /\ pc = "l219"
  /\ pitchRate' = ReadPitch(tab, pitchIndex)
  /\ pitchLen' = ReadDuration(tab, pitchIndex)
  /\ pc' = "l225"
  /\ UNCHANGED <<tab, gumIndex, gumWavDat, pitchIndex, j,
                 OCR0A, PORTB, DDRB, TCCR0A, TCCR0B, delayVars, ledVars, blinkVars>>
  /\ History("read_first")

\* variant: every pitchTab element starts at the beginning of gumballWavTab
EnterEntryResetWave ==
  /\ pc = "l225"
  /\ pitchRate # 0
  /\ j' = W32(0)
  /\ gumIndex' = 0
  /\ pc' = "l229"
  /\ UNCHANGED <<tab, gumWavDat, pitchIndex, pitchRate, pitchLen,
                 OCR0A, PORTB, DDRB, TCCR0A, TCCR0B, delayVars, ledVars, blinkVars>>
  /\ History("enter")

\* line 225, pitchRate != 0, and the initialisation j=0 of line 229
EnterEntry ==
  /\ pc = "l225"
  /\ pitchRate # 0
  /\ j' = W32(0)
  /\ pc' = "l229"
  /\ UNCHANGED <<tab, gumIndex, gumWavDat, pitchIndex, pitchRate, pitchLen,
                 OCR0A, PORTB, DDRB, TCCR0A, TCCR0B, delayVars, ledVars, blinkVars>>
  /\ History("enter")

\* variant: no outer while (1): main() ends after one pass
PassExitHalt ==
  /\ pc = "l225"
  /\ pitchRate = 0
  /\ pc' = "end"
  /\ UNCHANGED <<tab, gumIndex, gumWavDat, pitchIndex, pitchRate, pitchLen, j,
                 OCR0A, PORTB, DDRB, TCCR0A, TCCR0B, delayVars, ledVars, blinkVars>>
  /\ History("exit")

\* line 225, pitchRate == 0: the inner while ends, line 259 loops to line 213
PassExit ==
  /\ pc = "l225"
  /\ pitchRate = 0
  /\ pc' = "l213"
  /\ UNCHANGED <<tab, gumIndex, gumWavDat, pitchIndex, pitchRate, pitchLen, j,
                 OCR0A, PORTB, DDRB, TCCR0A, TCCR0B, delayVars, ledVars, blinkVars>>
  /\ History("exit")

\* line 229: the test j<pitchLen
ForTest ==
  /\ pc = "l229"
  /\ pc' = IF Lt32(j, W32(pitchLen)) THEN "l231" ELSE "l251"
  /\ UNCHANGED <<tab, gumIndex, gumWavDat, pitchIndex, pitchRate, pitchLen, j,
                 OCR0A, PORTB, DDRB, TCCR0A, TCCR0B, delayVars, ledVars, blinkVars>>
  /\ History("for")

\* line 231: gumWavDat = pgm_read_byte(&gumballWavTab[gumIndex])
ReadSample ==
  /\ pc = "l231"
  /\ gumWavDat' = ReadWave(gumIndex)
  /\ pc' = "l232"
  /\ UNCHANGED <<tab, gumIndex, pitchIndex, pitchRate, pitchLen, j,
                 OCR0A, PORTB, DDRB, TCCR0A, TCCR0B, delayVars, ledVars, blinkVars>>
  /\ History("read_sample")

\* line 232: OCR0A = gumWavDat
WriteSample ==
  /\ pc = "l232"
  /\ OCR0A' = gumWavDat
  /\ pc' = "l234"
  /\ UNCHANGED <<tab, gumIndex, gumWavDat, pitchIndex, pitchRate, pitchLen, j,
                 PORTB, DDRB, TCCR0A, TCCR0B, delayVars, ledVars, blinkVars>>
  /\ History("write")

\* variant: every tick writes back the whole of PINB, so the first tick
\* clears each PORTB bit whose pin reads one
SampleDelayWholePort ==
  /\ pc = "l234"
  /\ call' = <<pitchRate, SAMP>>
  /\ ticks' = SampTicks[pitchRate]
  /\ PORTB' = IF ticks' = 0 THEN PORTB
              ELSE (IF ticks' % 2 = 1 THEN Toggle(PORTB, {PB5}) ELSE PORTB)
                     \ {PB1, PB2, PB3}
  /\ pc' = "l236"
  /\ UNCHANGED <<tab, gumIndex, gumWavDat, pitchIndex, pitchRate, pitchLen, j,
                 OCR0A, DDRB, TCCR0A, TCCR0B, dpc, units, delayCount, timer, prev,
                 ledVars, blinkVars>>
  /\ History("delay")

\* variant: the two arguments of line 234 exchanged
SampleDelaySwapped ==
  /\ pc = "l234"
  /\ call' = <<SAMP, pitchRate>>
  /\ ticks' = SAMP * (pitchRate + 1)
  /\ PORTB' = IF ticks' % 2 = 1 THEN Toggle(PORTB, {PB5}) ELSE PORTB
  /\ pc' = "l236"
  /\ UNCHANGED <<tab, gumIndex, gumWavDat, pitchIndex, pitchRate, pitchLen, j,
                 OCR0A, DDRB, TCCR0A, TCCR0B, dpc, units, delayCount, timer, prev,
                 ledVars, blinkVars>>
  /\ History("delay")

\* line 234: delaySomeTime(pitchRate, SAMP), run to its return; every tick
\* writes a one to PINB bit PB5, which toggles PORTB bit PB5
SampleDelay ==
  /\ pc = "l234"
  /\ call' = <<pitchRate, SAMP>>
  /\ ticks' = SampTicks[pitchRate]
  /\ PORTB' = IF ticks' % 2 = 1 THEN Toggle(PORTB, {PB5}) ELSE PORTB
  /\ pc' = "l236"
  /\ UNCHANGED <<tab, gumIndex, gumWavDat, pitchIndex, pitchRate, pitchLen, j,
                 OCR0A, DDRB, TCCR0A, TCCR0B, dpc, units, delayCount, timer, prev,
                 ledVars, blinkVars>>
  /\ History("delay")

\* variant: the end-of-table test written > instead of >=
NextGumIndexLate(i) ==
  IF (i + 1) % U8 > gumballWavTabSize THEN 0 ELSE (i + 1) % U8

\* variant: the index is never reset at the end of the table
NextGumIndexNoReset(i) == (i + 1) % U8

\* the index after lines 236-240: gumIndex++, reset at the end of the table
NextGumIndex(i) ==
  IF (i + 1) % U8 >= gumballWavTabSize THEN 0 ELSE (i + 1) % U8

\* variant: the for counter declared uint8_t
NextJ8(n) == <<0, (n[2] + 1) % U8>>

\* the for counter after j++ of line 229
NextJ(n) == Inc32(n)

\* variant: the mask of line 246 names PB3 instead of PB1
WrapLedsBlueMask(portb, p) ==
  LET r == IF RedCond(p) THEN Toggle(portb, {PB2}) ELSE portb
  IN IF GreenCond(p) THEN Toggle(r, {PB3}) ELSE r

\* PORTB after lines 242-247, executed with pitch p
WrapLeds(portb, p) ==
  LET r == IF RedCond(p) THEN Toggle(portb, {PB2}) ELSE portb
  IN IF GreenCond(p) THEN Toggle(r, {PB1}) ELSE r

\* lines 236-248 and j++ of line 229
Advance ==
  /\ pc = "l236"
  /\ gumIndex' = NextGumIndex(gumIndex)
  /\ PORTB' = IF (gumIndex + 1) % U8 >= gumballWavTabSize
              THEN WrapLeds(PORTB, pitchRate) ELSE PORTB
  /\ j' = NextJ(j)
  /\ pc' = "l229"
  /\ UNCHANGED <<tab, gumWavDat, pitchIndex, pitchRate, pitchLen,
                 OCR0A, DDRB, TCCR0A, TCCR0B, delayVars, ledVars, blinkVars>>
  /\ History("advance")

\* line 251: pitchIndex++
IncPitchIndex ==
  /\ pc = "l251"
  /\ pitchIndex' = (pitchIndex + 1) % U8
  /\ pc' = "l252"
  /\ UNCHANGED <<tab, gumIndex, gumWavDat, pitchRate, pitchLen, j,
                 OCR0A, PORTB, DDRB, TCCR0A, TCCR0B, delayVars, ledVars, blinkVars>>
  /\ History("inc_pitch")

\* variant: lines 252-253 read the element just finished
ReadNextStale ==
  /\ pc = "l252"
  /\ pitchRate' = ReadPitch(tab, pitchIndex - 1)
  /\ pitchLen' = ReadDuration(tab, pitchIndex - 1)
  /\ pc' = "l256"
  /\ UNCHANGED <<tab, gumIndex, gumWavDat, pitchIndex, j,
                 OCR0A, PORTB, DDRB, TCCR0A, TCCR0B, delayVars, ledVars, blinkVars>>
  /\ History("read_next")

\* lines 252-253: read pitchTab[pitchIndex]
ReadNext ==
  /\ pc = "l252"
  /\ pitchRate' = ReadPitch(tab, pitchIndex)
  /\ pitchLen' = ReadDuration(tab, pitchIndex)
  /\ pc' = "l256"
  /\ UNCHANGED <<tab, gumIndex, gumWavDat, pitchIndex, j,
                 OCR0A, PORTB, DDRB, TCCR0A, TCCR0B, delayVars, ledVars, blinkVars>>
  /\ History("read_next")

\* line 256: PORTB ^= B8(00001000)
ToggleBlue ==
  /\ pc = "l256"
  /\ PORTB' = Toggle(PORTB, {PB3})
  /\ pc' = "l225"
  /\ UNCHANGED <<tab, gumIndex, gumWavDat, pitchIndex, pitchRate, pitchLen, j,
                 OCR0A, DDRB, TCCR0A, TCCR0B, delayVars, ledVars, blinkVars>>
  /\ History("blue")

Next ==
  \/ SetPwmPinOutput \/ SetCompareMode \/ SetFastPwm \/ SetNoPrescale
  \/ SetLedPinsOutput
  \/ ResetCursor \/ ReadFirst \/ EnterEntry \/ PassExit
  \/ ForTest \/ ReadSample \/ WriteSample \/ SampleDelay \/ Advance
  \/ IncPitchIndex \/ ReadNext \/ ToggleBlue

Spec == Init /\ [][Next]_vars

TypeOK ==
  /\ tab \in 1..Len(Tables)
  /\ gumIndex \in 0..(U8 - 1) /\ gumWavDat \in 0..(U8 - 1)
  /\ pitchIndex \in 0..(U8 - 1) /\ pitchRate \in 0..(U8 - 1)
  /\ pitchLen \in 0..(U16 - 1) /\ j \in (0..(U16 - 1)) \X (0..(U16 - 1))
  /\ OCR0A \in 0..(U8 - 1)
  /\ PORTB \subseteq 0..7 /\ DDRB \subseteq 0..7
  /\ TCCR0A \subseteq 0..7 /\ TCCR0B \subseteq 0..7


\* ------------------------------------------------- sequencer: properties

\* positions inside the for loop of lines 229-249
ForPCs == {"l229", "l231", "l232", "l234", "l236"}

\* the element being played, before pitchIndex++ of line 251
Bit(reg, b) == b \in reg

Changed(b) == Bit(PORTB, b) # Bit(prevPORTB, b)

\* C1: every played element (pitch != 0) has exactly its pitchDuration
\* samples written to OCR0A between its read and the read of the next
\* element: never more while it is played, and exactly that many when the
\* for loop is left, a duration of 0 giving no sample.
C1_ExactDuration ==
  /\ pc \in ForPCs => emitted <= ReadDuration(tab, pitchIndex)
  /\ pc = "l251" => emitted = ReadDuration(tab, pitchIndex)
  /\ pc = "l252" => emitted = ReadDuration(tab, pitchIndex - 1)

C1_Witness ==
  /\ pc = "l252"
  /\ ReadPitch(tab, pitchIndex - 1) # 0
  /\ emitted = ReadDuration(tab, pitchIndex - 1)
  /\ emitted > U8

\* C2: a pass ends at the first element whose pitch is 0: samples are written
\* only for elements before it, the pass leaves the while loop at it, and the
\* next pass starts with gumIndex 0 and pitchIndex 0; on the table
\* {(100,5),(50,3),(0,0)} a pass writes 8 samples and changes the blue LED
\* twice, once after each of the first two elements.
C2_PassEndsAtSentinel ==
  /\ pc \in ForPCs \cup {"l251"} => pitchIndex < Sentinel(tab)
  /\ cursorSet => passSamples <= DurSum(tab, Sentinel(tab))
  /\ (pc = "l225" /\ pitchRate = 0) =>
        /\ pitchIndex = Sentinel(tab)
        /\ passSamples = DurSum(tab, Sentinel(tab))
  /\ pc = "l219" => (gumIndex = 0 /\ pitchIndex = 0 /\ passSamples = 0)
  /\ Tables[tab] = ScenarioTab =>
        /\ pc = "l225" => (passBlue = pitchIndex /\ passSamples = DurSum(tab, pitchIndex))
        /\ ev = "exit" => (passSamples = 8 /\ passBlue = 2)

C2_Witness ==
  /\ Tables[tab] = ScenarioTab
  /\ ev = "exit" /\ pc = "l213"
  /\ passSamples = 8 /\ passBlue = 2

\* C3 as stated: between any two consecutive moments at which gumIndex
\* becomes 0, the restart of a pass included, exactly 92 samples are written.
C3_Original == gap \in {-1, gumballWavTabSize}

\* C3 amended: gumIndex follows the number of samples written since it last
\* became 0, so it steps through 0..91 in order across element boundaries;
\* it wraps to 0 after exactly 92 samples; the restart of a pass sets it to 0
\* whatever its value, after (samples of the pass) mod 92 samples.
C3_WrapEveryN ==
  /\ (cursorSet /\ pc \in {"l219", "l225", "l229", "l231", "l232", "l251", "l252", "l256"})
        => gumIndex = sinceZero
  /\ pc \in {"l234", "l236"} => gumIndex = sinceZero - 1
  /\ (ev = "advance" /\ gumIndex = 0) => gap = gumballWavTabSize
  /\ (ev = "reset_cursor" /\ gap # -1) =>
        gap = DurSum(tab, Sentinel(tab)) % gumballWavTabSize

C3_Witness ==
  /\ ev = "advance" /\ gumIndex = 0 /\ gap = gumballWavTabSize
  /\ pitchIndex > 0 /\ emitted < gumballWavTabSize

\* C4: on a wraparound the red LED changes iff the pitch of the element
\* being played is a multiple of 50 or of 20, and the green LED changes iff
\* it is a multiple of 40 or of 10; at a sample that does not wrap the index
\* neither changes.
C4_WrapToggles ==
  LET p == ReadPitch(tab, pitchIndex)
      wrapped == ev = "advance" /\ gumIndex = 0
  IN /\ wrapped => /\ Changed(PB2) <=> (p % 50 = 0 \/ p % 20 = 0)
                   /\ Changed(PB1) <=> (p % 40 = 0 \/ p % 10 = 0)
     /\ (ev \in {"for", "read_sample", "write", "delay", "advance"} /\ ~wrapped)
           => (~Changed(PB2) /\ ~Changed(PB1))

C4_Witness ==
  /\ ev = "advance" /\ gumIndex = 0
  /\ pitchRate = 150
  /\ Changed(PB2) /\ Changed(PB1)

\* C6: the blue LED changes once per played element, after the last sample
\* of the element and before the first sample of the next one (or the
\* restart), and at no other step; a pass over k elements changes it k times.
C6_BlueOncePerEntry ==
  /\ Changed(PB3) <=> ev = "blue"
  /\ ev = "blue" => /\ passSamples = DurSum(tab, pitchIndex)
                    /\ passBlue = pitchIndex
  /\ pc \in ForPCs \cup {"l251"} => passBlue = pitchIndex
  /\ pc \in {"l252", "l256"} => passBlue = pitchIndex - 1
  /\ ev = "exit" => passBlue = Sentinel(tab)

C6_Witness ==
  /\ ev = "blue" /\ Changed(PB3)
  /\ passBlue = 2
  /\ ReadDuration(tab, pitchIndex - 1) = 0

C8_PitchIndexState ==
  /\ Sentinel(1) = 72
  /\ cursorSet => pitchIndex \in 0..Sentinel(tab)
  /\ pc \in ForPCs \cup {"l251"} => pitchIndex < Sentinel(tab)
  /\ (cursorSet /\ pitchIndex = Sentinel(tab)) => pc \in {"l252", "l256", "l225", "l213"}

C8_PitchIndexStep ==
  pitchIndex' # pitchIndex =>
    \/ pc = "l251" /\ pitchIndex' = pitchIndex + 1
    \/ pc = "l213" /\ pitchIndex' = 0

C8_PitchIndex == []C8_PitchIndexState /\ [][C8_PitchIndexStep]_vars

C8_Witness == Tables[tab] = pitchTab /\ pitchIndex = 72 /\ pc = "l225"


\* main() is the only thread and the processor always executes its next
\* instruction
FairSpec == Spec /\ WF_vars(Next)

\* C9: the sequencer never stops: the start of a pass, with gumIndex 0 and
\* pitchIndex 0, recurs for ever, and so does the playing of every element
\* before the sentinel.
C9_NeverStalls ==
  /\ []<>(ev = "reset_cursor" /\ pc = "l219" /\ gumIndex = 0 /\ pitchIndex = 0)
  /\ \A t \in 1..Len(Tables) : \A i \in 0..(Len(Tables[t]) - 1) :
       (i < Sentinel(t)) => []<>(tab = t => (ev = "enter" /\ pitchIndex = i))

C9_Witness ==
  /\ Tables[tab] = pitchTab
  /\ ev = "reset_cursor" /\ pc = "l219" /\ gap # -1


\* ------------------------------------------ the LED conditions by pitch

\* Lines 242-247 executed once for every non-zero value of pitchRate in
\* turn (1..255), recording which of the two LEDs changed.
LedInit ==
  /\ RegInit /\ MainIdle /\ DelayIdle /\ LedIdle /\ BlinkIdle

LedEval ==
  /\ lp < U8 - 1
  /\ lp' = lp + 1
  /\ PORTB' = WrapLeds(PORTB, lp')
  /\ prevPORTB' = PORTB
  /\ seen' = seen \cup {<<Bit(PORTB', PB2) # Bit(PORTB, PB2),
                          Bit(PORTB', PB1) # Bit(PORTB, PB1)>>}
  /\ UNCHANGED <<tab, pc, gumIndex, gumWavDat, pitchIndex, pitchRate, pitchLen, j,
                 OCR0A, DDRB, TCCR0A, TCCR0B,
                 ev, emitted, passSamples, passBlue, sinceZero, gap, cursorSet>>
  /\ UNCHANGED <<delayVars, blinkVars>>

LedNext == LedEval

LedSpec == LedInit /\ [][LedNext]_vars

\* C5 as stated: over the pitches 1..255 all four combinations of the red
\* and the green condition occur.
C5_Original == lp = U8 - 1 => seen = BOOLEAN \X BOOLEAN

\* C5 amended: over the pitches 1..255 exactly three combinations occur:
\* both (pitch 20), neither (pitch 7) and green only; red without green
\* never occurs, the red condition implying the green one.
C5_ThreeCombinations ==
  /\ <<TRUE, FALSE>> \notin seen
  /\ lp = 20 => (Changed(PB2) /\ Changed(PB1))
  /\ lp = 7 => (~Changed(PB2) /\ ~Changed(PB1))
  /\ lp = U8 - 1 => seen = {<<TRUE, TRUE>>, <<FALSE, FALSE>>, <<FALSE, TRUE>>}

C5_Witness == lp = U8 - 1 /\ Cardinality(seen) = 3

\* ---------------------------------------------------- delaySomeTime()

\* delaySomeTime() called again and again with arguments up to MaxUnits and
\* MaxDelayCount; the result of the call before is kept for comparison.
DelayInit ==
  /\ RegInit /\ MainIdle /\ DelayIdle /\ LedIdle /\ BlinkIdle

\* the call: the parameters are set, timer of line 158 is not initialised
DelayCall(u, d) ==
  /\ dpc = "idle"
  /\ units' = W32(u)
  /\ delayCount' = W32(d)
  /\ call' = <<u, d>>
  /\ prev' = IF call = <<>> THEN <<>> ELSE <<call[1], call[2], ticks>>
  /\ ticks' = 0
  /\ dpc' = "l160"
  /\ UNCHANGED <<timer, PORTB, mainVars, ledVars, blinkVars>>

\* line 160: while (units != 0), and timer=0 of line 162
DelayWhileTest ==
  /\ dpc = "l160"
  /\ IF units # W32(0)
     THEN timer' = W32(0) /\ dpc' = "l162"
     ELSE timer' = timer /\ dpc' = "ret"
  /\ UNCHANGED <<units, delayCount, ticks, call, prev, PORTB, mainVars, ledVars, blinkVars>>

\* variant: the test of line 162 written < instead of <=
DelayForTestLt ==
  /\ dpc = "l162"
  /\ dpc' = IF Lt32(timer, delayCount) THEN "tick" ELSE "l163"
  /\ UNCHANGED <<units, delayCount, timer, ticks, call, prev, PORTB, mainVars, ledVars, blinkVars>>

\* line 162: the test timer <= delayCount
DelayForTest ==
  /\ dpc = "l162"
  /\ dpc' = IF Le32(timer, delayCount) THEN "tick" ELSE "l163"
  /\ UNCHANGED <<units, delayCount, timer, ticks, call, prev, PORTB, mainVars, ledVars, blinkVars>>

\* variant: timer declared 16 bits wide
DelayTick16 ==
  /\ dpc = "tick"
  /\ PORTB' = Toggle(PORTB, {PB5})
  /\ ticks' = ticks + 1
  /\ timer' = <<0, (timer[2] + 1) % U16>>
  /\ dpc' = "l162"
  /\ UNCHANGED <<units, delayCount, call, prev, mainVars, ledVars, blinkVars>>

\* line 162: the body PINB |= B8(00100000), which toggles PORTB bit PB5,
\* and timer++
DelayTick ==
  /\ dpc = "tick"
  /\ PORTB' = Toggle(PORTB, {PB5})
  /\ ticks' = ticks + 1
  /\ timer' = Inc32(timer)
  /\ dpc' = "l162"
  /\ UNCHANGED <<units, delayCount, call, prev, mainVars, ledVars, blinkVars>>

\* line 163: units--
DelayDec ==
  /\ dpc = "l163"
  /\ units' = Dec32(units)
  /\ dpc' = "l160"
  /\ UNCHANGED <<delayCount, timer, ticks, call, prev, PORTB, mainVars, ledVars, blinkVars>>

\* line 165: return
DelayReturn ==
  /\ dpc = "ret"
  /\ dpc' = "idle"
  /\ UNCHANGED <<units, delayCount, timer, ticks, call, prev, PORTB, mainVars, ledVars, blinkVars>>

DelayNext ==
  \/ \E u \in 0..MaxUnits : \E d \in 0..MaxDelayCount : DelayCall(u, d)
  \/ DelayWhileTest \/ DelayForTest \/ DelayTick \/ DelayDec \/ DelayReturn

DelaySpec == DelayInit /\ [][DelayNext]_vars

\* C10 as stated: the tick count of a call is 0 when units is 0, strictly
\* increasing in units for every delayCount, and strictly increasing in
\* delayCount for every units.
C10_Original ==
  dpc = "ret" =>
    /\ call[1] = 0 => ticks = 0
    /\ prev # <<>> =>
         /\ (prev[2] = call[2] /\ prev[1] < call[1]) => prev[3] < ticks
         /\ (prev[1] = call[1] /\ prev[2] < call[2]) => prev[3] < ticks

\* C10 amended: the tick count is 0 when units is 0, whatever delayCount;
\* it is strictly increasing in units for every delayCount, and strictly
\* increasing in delayCount for every units >= 1.
C10_Monotonic ==
  dpc = "ret" =>
    /\ call[1] = 0 => ticks = 0
    /\ prev # <<>> =>
         /\ (prev[2] = call[2] /\ prev[1] < call[1]) => prev[3] < ticks
         /\ (prev[1] = call[1] /\ prev[2] < call[2] /\ call[1] >= 1) => prev[3] < ticks
         /\ (prev[1] = 0 /\ call[1] = 0) => prev[3] = ticks

C10_Witness ==
  /\ dpc = "ret" /\ prev # <<>>
  /\ prev[1] = call[1] /\ call[1] >= 1 /\ prev[2] < call[2]
  /\ prev[3] < ticks


\* C11 as stated: the tick count is c * units * delayCount for one constant
\* c: it is 0 whenever units * delayCount is 0, and the counts of two calls
\* are in the ratio of their products.
C11_Original ==
  dpc = "ret" =>
    /\ call[1] * call[2] = 0 => ticks = 0
    /\ prev # <<>> =>
         ticks * (prev[1] * prev[2]) = prev[3] * (call[1] * call[2])

\* C11 amended: the tick count is c * units * (delayCount + 1) with c = 1,
\* the for loop of line 162 running for timer = 0..delayCount; it is 0
\* exactly when units is 0, and not when only delayCount is 0.
C11_ProportionalPlusOne ==
  dpc = "ret" =>
    /\ ticks = 0 <=> call[1] = 0
    /\ ticks = 1 * call[1] * (call[2] + 1)
    /\ prev # <<>> =>
         ticks * (prev[1] * (prev[2] + 1)) = prev[3] * (call[1] * (call[2] + 1))

C11_Witness ==
  /\ dpc = "ret" /\ prev # <<>>
  /\ call[1] >= 1 /\ call[2] = 0 /\ ticks = call[1]
  /\ prev[1] >= 1 /\ prev[2] >= 1


\* ------------------------------------------------------- blink_LEDs()

\* largest value of int (16 bits on the AVR)
INT_MAX == 32767

\* bounds of the arguments blink_LEDs() is exercised with
MaxDuration == 5
MaxOnOff == 2

\* a call whose period count does not fit int
LongBlink == <<INT_MAX + 2, 1, 0>>

BlinkCalls ==
  {c \in (0..MaxDuration) \X (0..MaxOnOff) \X (0..MaxOnOff) : c[2] + c[3] > 0}
    \cup {LongBlink}

\* (unsigned long) i, the conversion of line 176's comparison
IntToU32(i) == IF i < 0 THEN <<U16 - 1, U16 + i>> ELSE W32(i)

\* duration/(onTime+offTime) of line 176
BlinkCount(a) == W32(a[1] \div (a[2] + a[3]))

\* one call of blink_LEDs(), entered with the LED bits in any state
BlinkInit ==
  /\ OCR0A = 0 /\ DDRB = {} /\ TCCR0A = {} /\ TCCR0B = {}
  /\ PORTB \in {{}, {PB2}, LEDS}
  /\ MainIdle /\ DelayIdle /\ LedIdle
  /\ bpc = "l176" /\ bi = 0 /\ periods = 0
  /\ bargs \in BlinkCalls

\* line 176: the test i<(duration/(onTime+offTime))
BlinkTest ==
  /\ bpc = "l176"
  /\ bpc' = IF Lt32(IntToU32(bi), BlinkCount(bargs)) THEN "l177" ELSE "done"
  /\ UNCHANGED <<bi, bargs, periods, PORTB, mainVars, delayVars, ledVars>>

\* line 177: PORTB |= B8(00001110)
BlinkOn ==
  /\ bpc = "l177"
  /\ PORTB' = PORTB \cup {PB1, PB2, PB3}
  /\ bpc' = "l178"
  /\ UNCHANGED <<bi, bargs, periods, mainVars, delayVars, ledVars>>

\* delaySomeTime(u, TENTH_MS) run to its return: u * (TENTH_MS + 1) ticks,
\* each toggling PORTB bit PB5
BlinkDelay(u) ==
  /\ call' = <<u, TENTH_MS>>
  /\ ticks' = u * (TENTH_MS + 1)
  /\ PORTB' = IF ticks' % 2 = 1 THEN Toggle(PORTB, {PB5}) ELSE PORTB
  /\ UNCHANGED <<dpc, units, delayCount, timer, prev>>

\* line 178: delaySomeTime(onTime, TENTH_MS)
BlinkDelayOn ==
  /\ bpc = "l178"
  /\ BlinkDelay(bargs[2])
  /\ bpc' = "l179"
  /\ UNCHANGED <<bi, bargs, periods, mainVars, ledVars>>

\* line 179: PORTB &= B8(11110001)
BlinkOff ==
  /\ bpc = "l179"
  /\ PORTB' = PORTB \ {PB1, PB2, PB3}
  /\ bpc' = "l180"
  /\ UNCHANGED <<bi, bargs, periods, mainVars, delayVars, ledVars>>

\* line 180: delaySomeTime(offTime, TENTH_MS)
BlinkDelayOff ==
  /\ bpc = "l180"
  /\ BlinkDelay(bargs[3])
  /\ bpc' = "l176i"
  /\ periods' = periods + 1
  /\ UNCHANGED <<bi, bargs, mainVars, ledVars>>

\* line 176: i++ on an int; at INT_MAX the increment overflows, which is
\* undefined: the build either wraps i to INT_MIN or keeps counting in a
\* wider register
BlinkInc ==
  /\ bpc = "l176i"
  /\ bi' \in IF bi = INT_MAX THEN {-INT_MAX - 1, INT_MAX + 1} ELSE {bi + 1}
  /\ bpc' = "l176"
  /\ UNCHANGED <<bargs, periods, PORTB, mainVars, delayVars, ledVars>>

BlinkNext ==
  \/ BlinkTest \/ BlinkOn \/ BlinkDelayOn \/ BlinkOff \/ BlinkDelayOff \/ BlinkInc

BlinkSpec == BlinkInit /\ [][BlinkNext]_vars

\* C12: a call with onTime + offTime > 0 performs exactly
\* floor(duration / (onTime + offTime)) periods, each one: the three LED bits
\* set, a delay of onTime units, the three LED bits cleared, a delay of
\* offTime units; a duration below one period gives no LED activity.
C12_WholePeriods ==
  LET n == bargs[1] \div (bargs[2] + bargs[3])
  IN /\ periods <= n
     /\ bpc = "done" => periods = n
     /\ bpc = "l178" => LEDS \subseteq PORTB
     /\ bpc = "l179" => (LEDS \subseteq PORTB /\ call = <<bargs[2], TENTH_MS>>)
     /\ bpc = "l180" => PORTB \cap LEDS = {}
     /\ bpc = "l176i" => (PORTB \cap LEDS = {} /\ call = <<bargs[3], TENTH_MS>>)
     /\ (bpc = "done" /\ n = 0) => call = <<>>

\* the calls whose period count fits int, where C12 holds
C12_ShortCalls ==
  (bargs[1] \div (bargs[2] + bargs[3]) <= INT_MAX) => C12_WholePeriods


\* C13: every sample is handled in the order read gumballWavTab[gumIndex],
\* write it to OCR0A, delay pitchRate units of SAMP ticks, advance gumIndex;
\* during the whole delay OCR0A holds the sample of the index not yet
\* advanced, the delay's unit count is the pitch of the current pitchTab
\* element, and every smaller pitch gives a strictly shorter delay.
C13_SampleOrderState ==
  /\ pc = "l232" => (ev = "read_sample" /\ gumWavDat = ReadWave(gumIndex))
  /\ pc = "l234" => (ev = "write" /\ OCR0A = ReadWave(gumIndex))
  /\ pc = "l236" =>
       /\ ev = "delay" /\ OCR0A = ReadWave(gumIndex)
       /\ call = <<ReadPitch(tab, pitchIndex), SAMP>>
       /\ ticks = SampTicks[call[1]]
       /\ \A q \in 0..(call[1] - 1) : SampTicks[q] < ticks
  /\ ev = "advance" => pc = "l229"

C13_SampleOrderStep ==
  /\ ev' = "read_sample" => ev \in {"for"}
  /\ ev' = "write" => ev = "read_sample"
  /\ ev' = "delay" => (ev = "write" /\ OCR0A' = OCR0A /\ gumIndex' = gumIndex)
  /\ ev' = "advance" => (ev = "delay" /\ gumIndex' = NextGumIndex(gumIndex))

C13_SampleOrder == []C13_SampleOrderState /\ [][C13_SampleOrderStep]_vars

C13_Witness ==
  /\ pc = "l236" /\ Tables[tab] = pitchTab /\ pitchIndex = 1
  /\ call = <<150, SAMP>> /\ ticks = 150 * (SAMP + 1) /\ OCR0A = ReadWave(gumIndex)
  /\ gumIndex > 0


\* C14 as stated: when the blue LED is about to toggle, pitchIndex, pitchRate
\* and pitchLen still belong to the pitchTab element just finished (blue
\* first, then the index, then the read).
C14_Original ==
  pc = "l256" =>
    /\ pitchIndex = passBlue
    /\ pitchRate = ReadPitch(tab, passBlue)
    /\ pitchLen = ReadDuration(tab, passBlue)

\* C14 amended: after the last sample of an element pitchIndex is advanced
\* first, then pitchRate and pitchLen of the next element are read, and the
\* blue LED toggles last; when it toggles, pitchIndex, pitchRate and pitchLen
\* already belong to the next element.
C14_BlueLastState ==
  /\ pc = "l251" =>
       /\ ev = "for" /\ emitted = pitchLen /\ pitchIndex = passBlue
       /\ pitchRate = ReadPitch(tab, passBlue)
  /\ pc = "l252" => (ev = "inc_pitch" /\ pitchIndex = passBlue + 1)
  /\ pc = "l256" =>
       /\ ev = "read_next" /\ pitchIndex = passBlue + 1
       /\ pitchRate = ReadPitch(tab, passBlue + 1)
       /\ pitchLen = ReadDuration(tab, passBlue + 1)
  /\ ev = "blue" => (pc = "l225" /\ pitchIndex = passBlue)

C14_BlueLastStep ==
  /\ ev' = "inc_pitch" => ev = "for"
  /\ ev' = "read_next" => ev = "inc_pitch"
  /\ ev' = "blue" =>
       /\ ev = "read_next"
       /\ <<pitchIndex', pitchRate', pitchLen'>> = <<pitchIndex, pitchRate, pitchLen>>

C14_BlueLast == []C14_BlueLastState /\ [][C14_BlueLastStep]_vars

C14_Witness ==
  /\ pc = "l256" /\ Tables[tab] = ScenarioTab /\ passBlue = 0
  /\ pitchIndex = 1 /\ pitchRate = 50 /\ pitchLen = 3 /\ emitted = 0


\* C15: going from one pitchTab element to the next leaves gumIndex
\* unchanged (only line 213 and the advance of line 236 set it), so the k-th
\* sample written in a pass, k counted from 0 over all elements of the pass,
\* is gumballWavTab[k mod 92] however the samples are split among elements.
C15_KthSampleState ==
  ev = "write" =>
    /\ gumIndex = (passSamples - 1) % gumballWavTabSize
    /\ OCR0A = gumballWavTab[((passSamples - 1) % gumballWavTabSize) + 1]

C15_KthSampleStep ==
  /\ ev' \in {"inc_pitch", "read_next", "blue", "enter", "for", "exit"}
       => gumIndex' = gumIndex
  /\ gumIndex' # gumIndex => ev' \in {"reset_cursor", "advance"}

C15_KthSample == []C15_KthSampleState /\ [][C15_KthSampleStep]_vars

C15_Witness ==
  /\ ev = "write" /\ Tables[tab] = pitchTab /\ pitchIndex = 1
  /\ passSamples = 400 /\ emitted = 120 /\ gumIndex = 31
  /\ OCR0A = gumballWavTab[32]


\* C16: the LED bits of PORTB change only at cursor events and only the bit
\* tied to the event: a sample that does not wrap gumIndex leaves red, green
\* and blue unchanged; a wrap leaves blue unchanged; going to the next
\* pitchTab element leaves red and green unchanged; the restart of a pass
\* leaves all three unchanged; the per-sample delay leaves all three
\* unchanged.
C16_LedFrame ==
  /\ (ev \in {"for", "read_sample", "write"} \/ (ev = "advance" /\ gumIndex # 0))
       => (~Changed(PB1) /\ ~Changed(PB2) /\ ~Changed(PB3))
  /\ (ev = "advance" /\ gumIndex = 0) => ~Changed(PB3)
  /\ ev \in {"inc_pitch", "read_next", "blue", "enter"}
       => (~Changed(PB1) /\ ~Changed(PB2))
  /\ ev \in {"exit", "reset_cursor", "read_first"}
       => (~Changed(PB1) /\ ~Changed(PB2) /\ ~Changed(PB3))
  /\ ev = "delay" => (~Changed(PB1) /\ ~Changed(PB2) /\ ~Changed(PB3))
  /\ (Changed(PB1) \/ Changed(PB2)) => (ev = "advance" /\ gumIndex = 0)
  /\ Changed(PB3) => ev = "blue"

C16_Witness ==
  /\ ev = "delay" /\ Changed(PB5)
  /\ {PB1, PB2, PB3} \subseteq PORTB /\ {PB1, PB2, PB3} \subseteq prevPORTB


\* ------------------------------------- delaySomeTime(), one call to its end

\* the ends of the documented range 0..65535 of units and delCount
RangeEnds == {<<0, U16 - 1>>, <<1, U16 - 1>>, <<U16 - 1, 0>>}

OnceCalls == ((0..MaxUnits) \X (0..MaxDelayCount)) \cup RangeEnds

\* before the call; timer of line 158 holds whatever the stack held
DelayOnceInit ==
  /\ RegInit /\ MainIdle /\ LedIdle /\ BlinkIdle
  /\ dpc = "idle" /\ units = W32(0) /\ delayCount = W32(0)
  /\ timer \in {W32(0), <<U16 - 1, U16 - 1>>}
  /\ ticks = 0 /\ call = <<>> /\ prev = <<>>

DelayOnceRun ==
  DelayWhileTest \/ DelayForTest \/ DelayTick \/ DelayDec \/ DelayReturn

DelayOnceNext ==
  \/ \E c \in OnceCalls : call = <<>> /\ DelayCall(c[1], c[2])
  \/ DelayOnceRun

DelayOnceSpec == DelayOnceInit /\ [][DelayOnceNext]_vars

\* the processor executes the next instruction of the call
DelayOnceFairSpec == DelayOnceSpec /\ WF_vars(DelayOnceRun)

\* C17: for units and delayCount in 0..65535 a call of delaySomeTime returns,
\* having run the tick body exactly units * (delayCount + 1) times, timer
\* going through 0..delayCount in every unit, and neither timer nor units
\* wraps around.
C17_CountState ==
  /\ dpc \in {"l160", "l162", "tick", "l163", "ret"} =>
       /\ units[1] = 0 /\ units[2] <= call[1]
       /\ ticks <= call[1] * (call[2] + 1)
  /\ dpc \in {"l162", "tick", "l163"} =>
       /\ Le32(timer, Inc32(delayCount))
       /\ ticks = (call[1] - units[2]) * (call[2] + 1) + Val32(timer)
  /\ dpc = "tick" => Le32(timer, delayCount)
  /\ dpc = "ret" => (units = W32(0) /\ ticks = call[1] * (call[2] + 1))

C17_CountStep ==
  /\ (dpc = "tick" /\ dpc' = "l162") =>
       (timer # <<U16 - 1, U16 - 1>> /\ Val32(timer') = Val32(timer) + 1)
  /\ (dpc = "l163" /\ dpc' = "l160") =>
       (units # W32(0) /\ Val32(units') = Val32(units) - 1)

C17_TerminatesExact ==
  /\ []C17_CountState
  /\ [][C17_CountStep]_vars
  /\ (dpc = "l160") ~> (dpc = "ret")

C17_Witness ==
  /\ dpc = "ret" /\ call = <<1, U16 - 1>> /\ ticks = U16 /\ timer = <<1, 0>>


\* the pitchTab element of table t that sample k of a pass belongs to
ElemOf(t, k) ==
  CHOOSE e \in 0..(Sentinel(t) - 1) : DurSum(t, e) <= k /\ k < DurSum(t, e + 1)

\* C18: every pass gives the same output: the k-th sample written in a pass
\* and the pitch it is played at depend on the tables and on k alone, in the
\* first pass as in every later one, and every pass writes the sum of the
\* durations of the elements before the terminating one.
C18_PassesIdentical ==
  /\ ev = "write" =>
       LET k == passSamples - 1
       IN /\ k < DurSum(tab, Sentinel(tab))
          /\ pitchIndex = ElemOf(tab, k)
          /\ <<OCR0A, pitchRate>> =
               <<gumballWavTab[(k % gumballWavTabSize) + 1], ReadPitch(tab, ElemOf(tab, k))>>
  /\ ev = "exit" => passSamples = DurSum(tab, Sentinel(tab))
  /\ ev = "read_first" => (passSamples = 0 /\ gumIndex = 0 /\ pitchIndex = 0)

\* a sample of the second pass of the scenario table
C18_Witness ==
  /\ Tables[tab] = ScenarioTab /\ ev = "write" /\ gap = 8
  /\ passSamples = 6 /\ pitchRate = 50 /\ OCR0A = gumballWavTab[6]


\* DDRB, TCCR0A and TCCR0B as lines 197-209 leave them: PB0..PB3 outputs,
\* OC0A cleared on compare match, fast PWM, clock not prescaled
Configured ==
  /\ DDRB = {PB0, PB1, PB2, PB3}
  /\ TCCR0A = {COM0A1, WGM01, WGM00}
  /\ TCCR0B = {CS00}

\* C19: PB0 and the three LED pins are outputs and the timer runs in fast PWM
\* without prescaling before the first write of OCR0A and before any LED bit
\* is toggled; each configuration statement runs once, in source order, and
\* the sequencer loop never changes DDRB, TCCR0A or TCCR0B.
C19_ConfigState ==
  /\ (cursorSet \/ passSamples > 0 \/ OCR0A # 0 \/ PORTB \cap LEDS # {}
        \/ ev \in {"write", "advance", "blue"}) => Configured
  /\ pc \notin {"off", "l197", "l198", "l201", "l206", "l209"} => Configured

C19_ConfigStep ==
  /\ <<DDRB', TCCR0A', TCCR0B'>> # <<DDRB, TCCR0A, TCCR0B>> =>
       /\ ev' \in {"ddr_pwm", "com", "wgm", "cs", "ddr_led"}
       /\ ~cursorSet /\ passSamples = 0 /\ PORTB \cap LEDS = {}
  /\ ev' = "ddr_pwm" => ev = "reset"
  /\ ev' = "com" => ev = "ddr_pwm"
  /\ ev' = "wgm" => ev = "com"
  /\ ev' = "cs" => ev = "wgm"
  /\ ev' = "ddr_led" => ev = "cs"
  /\ ev' = "reset_cursor" => (ev \in {"ddr_led", "exit"} /\ Configured)

C19_StartupOrder == []C19_ConfigState /\ [][C19_ConfigStep]_vars

C19_Witness ==
  /\ ev = "write" /\ passSamples = 1 /\ gap = -1 /\ Configured
  /\ PORTB \cap LEDS = {}

====
